---- MODULE Spec2Model ----
(***************************************************************************)
(* Model of Rust/devmapper-demo/src/main.rs: loop devices, a device-mapper *)
(* thin pool, thin volumes and snapshots, and the teardown performed by    *)
(* the Drop implementations.                                               *)
(*                                                                         *)
(* The external commands (losetup, blockdev, thin_restore, dmsetup) act on *)
(* the kernel state held in the variables loops, dmpool, nodes, ids and    *)
(* mounted.  The Rust handles live in pool and vols.  calls and last record*)
(* what the most recent operation issued and returned.                     *)
(*                                                                         *)
(* The last section models the snapshot registry of                        *)
(* Rust/overlay-mount/src/main.rs (OverlaySnapshotter), held in snapshots. *)
(***************************************************************************)
EXTENDS Integers, Sequences, FiniteSets, TLC

\* ---- bounds -------------------------------------------------------------
NumSlots == 2          \* loop device slots /dev/loop0 .. /dev/loop<NumSlots-1>
MaxVols  == 2          \* ThinVolume handles a caller holds at once
MaxId    == 1          \* device ids a caller passes are 0..MaxId
MaxFaults == 1         \* failures injected from outside the control layer
MaxDevs  == 2          \* LoopDevice handles a caller holds at once
NumThreads == 2        \* callers that run ThinPool::create at the same time
MaxLayers == 2         \* image snapshot ids one prepare_container call is given

Slots   == 0 .. (NumSlots - 1)
Ids     == 0 .. MaxId

\* ---- names and sizes used by demonstrate_thin_provisioning ---------------
PoolName     == "demo-pool"
BaseName     == "demo-base"
SnapName     == "demo-snapshot"
VolNames     == {BaseName, SnapName}
DemoMetaMb   == 100
DemoDataMb   == 1024
DemoBlock    == 2048
DemoVolMb    == 500
DemoBaseId   == 0
DemoSnapId   == 1

\* inputs a caller of the API may pass
VolSizesMb   == {DemoVolMb}
DataSizesMb  == {DemoDataMb}
BlockSizes   == {0, DemoBlock}
\* virtual sizes passed by a caller that creates volumes of more than one size
TwoSizesMb   == {DemoVolMb, 2 * DemoVolMb}

\* ---- absent values ---------------------------------------------------------
NoSlot == NumSlots      \* no slot: the first index past the last slot
NoId   == MaxId + 1     \* no device id: the first id no caller passes
NoTab  == [meta |-> NoSlot, data |-> NoSlot, block |-> 0, len |-> 0]
NoNode == [id |-> NoId, len |-> 0]
NoLoop == [device_path |-> NoSlot, should_cleanup |-> FALSE]
NoPool == [name |-> "", metadata_dev |-> NoLoop, data_dev |-> NoLoop,
           data_block_size |-> 0, should_cleanup |-> FALSE]
NoVol  == [name |-> "", device_id |-> NoId, virtual_size_mb |-> 0,
           should_cleanup |-> FALSE]
NoXml  == [data_block_size |-> 0, nr_data_blocks |-> 0]

\* ---- names used by demonstrate_containerd_workflow -------------------------
LayerIds     == {"sha256-layer1", "sha256-layer2"}
ContainerIds == {"container-nginx-001", "container-nginx-002"}
SnapshotIds  == LayerIds \cup ContainerIds
\* The value of a key the registry does not contain.
NoSnapshot   == [id |-> "", fs_dir |-> <<>>, parents |-> <<>>]
\* The value of a Result that carries no OverlayConfig.
NoConfig     == [lower_dirs |-> <<>>, upper_dir |-> <<>>, work_dir |-> <<>>,
                 merged_dir |-> <<>>]

VARIABLES
    loops,      \* set of loop slots that have a backing file bound
    dmpool,     \* table of the active thin-pool device PoolName, or NoTab
    nodes,      \* [VolNames -> table of the active thin device, or NoNode]
    ids,        \* device ids present in the pool metadata
    mounted,    \* names of thin devices that are mounted (held open)
    pool,       \* the caller's ThinPool handle, or NoPool
    vols,       \* the ThinVolume handles the caller holds
    calls,      \* control calls issued by the last operation, in order
    last,       \* the last operation and what it returned
    released,   \* ids a delete message has removed from the active pool
    faults,     \* number of outside failures injected so far
    pc,         \* position in demonstrate_thin_provisioning
    devs,       \* the LoopDevice handles a caller of LoopDevice holds
    xml_file,   \* contents of /tmp/thin-metadata-init.xml, or NoXml
    thr,        \* the callers that run ThinPool::create at the same time
    conc,       \* what those callers have written: metadata devices, pools
    snapshots   \* OverlaySnapshotter::snapshots, the registry of snapshots

\* The variables used only where LoopDevice is called directly, where
\* ThinPool::create is run by several callers at once, or by the overlay
\* snapshotter.
aux == <<devs, xml_file, thr, conc, snapshots>>

vars == <<loops, dmpool, nodes, ids, mounted, pool, vols, calls, last,
          released, faults, pc, devs, xml_file, thr, conc, snapshots>>

\* The kernel state as one record, the form the operations below work on.
World == [loops |-> loops, dmpool |-> dmpool, nodes |-> nodes, ids |-> ids,
          mounted |-> mounted]

\* A control call as it is recorded in calls.
Call(cmd, arg, res) == [cmd |-> cmd, arg |-> arg, res |-> res]

\* Result of running an external command: f is what goes wrong outside the
\* control layer ("none", "fail" = non-zero exit, "spawn" = the command could
\* not be run), accepted is whether the control layer accepts the request.
\* Where the code treats both failures alike ("?" on status() followed by a
\* bail on a non-zero status) "fail" stands for either.
RunFaults == {"none", "fail"}
CmdFaults == {"none", "fail", "spawn"}

\* Number of failures a choice of faults injects.
Count(f) == Cardinality({x \in DOMAIN f : f[x] # "none"})
Res(f, accepted) ==
    IF f = "spawn" THEN "spawn"
    ELSE IF f = "fail" THEN "fail"
    ELSE IF accepted THEN "ok" ELSE "rejected"

Min(S) == CHOOSE x \in S : \A y \in S : x <= y

\* Sequencing of two steps of a handler: F applied to the value of x.
Then(x, F(_)) == CHOOSE r \in {F(y) : y \in {x}} : TRUE

\* ---- LoopDevice -------------------------------------------------------------

\* Where LoopDevice::create can go wrong for reasons outside the model:
\* creating the file, fallocate, losetup -f, the attach, running blockdev,
\* parsing its output, or the device reporting another size.
LoopFaults == {"none", "file", "fallocate", "find", "attach", "blockdev",
               "parse", "mismatch"}

\* losetup -f: the first unused slot.
FreeSlot(w) == IF Slots \ w.loops = {} THEN NoSlot ELSE Min(Slots \ w.loops)

\* blockdev --getsize64 on a device bound to a file of size_bytes bytes.
ReportedSize(size_bytes, f) ==
    IF f = "mismatch" THEN size_bytes - 512 ELSE size_bytes

\* A create that accepts whatever size the device reports.
SizeMismatch_Unchecked(reported_size, size_bytes) == FALSE

\* The comparison of the reported size with the requested one (bail if they
\* differ).
SizeMismatch(reported_size, size_bytes) == reported_size # size_bytes

\* LoopDevice::create.  No LoopDevice value exists until the final Ok, so an
\* error return after the attach leaves the slot bound with nothing to drop.
\* size is the size in bytes of the device that was bound.
LoopCreate(w, size_mb, f) ==
    LET size_bytes  == size_mb * 1024 * 1024
        device_path == FreeSlot(w)
        findRes     == Res(IF f = "find" THEN "fail" ELSE "none",
                           device_path # NoSlot)
        attachRes   == Res(IF f = "attach" THEN "fail" ELSE "none", TRUE)
        bound       == [w EXCEPT !.loops = @ \cup {device_path}]
        sizeRes     == IF f = "blockdev" THEN "spawn"
                       ELSE IF f = "parse" THEN "fail" ELSE "ok"
        reported    == ReportedSize(size_bytes, f)
        logAttach   == <<Call("losetup", device_path, attachRes)>>
        logSize     == Append(logAttach,
                              Call("blockdev", device_path,
                                   IF /\ sizeRes = "ok"
                                      /\ SizeMismatch(reported, size_bytes)
                                   THEN "mismatch" ELSE sizeRes))
    IN  IF f \in {"file", "fallocate"}
        THEN [w |-> w, log |-> <<>>, ok |-> FALSE, dev |-> NoLoop, size |-> 0]
        ELSE IF findRes # "ok"
        THEN [w |-> w, log |-> <<>>, ok |-> FALSE, dev |-> NoLoop, size |-> 0]
        ELSE IF attachRes # "ok"
        THEN [w |-> w, log |-> logAttach, ok |-> FALSE, dev |-> NoLoop,
              size |-> 0]
        ELSE IF sizeRes # "ok"
        THEN [w |-> bound, log |-> logSize, ok |-> FALSE, dev |-> NoLoop,
              size |-> reported]
        ELSE IF SizeMismatch(reported, size_bytes)
        THEN [w |-> bound, log |-> logSize, ok |-> FALSE, dev |-> NoLoop,
              size |-> reported]
        ELSE [w |-> bound, log |-> logSize, ok |-> TRUE,
              dev |-> [device_path |-> device_path, should_cleanup |-> TRUE],
              size |-> reported]

\* A detach that does not look at should_cleanup.
LoopAlreadyDetached_Unchecked(h) == FALSE

\* The early return of LoopDevice::detach for a device already detached.
LoopAlreadyDetached(h) == ~h.should_cleanup

\* LoopDevice::detach: losetup -d, refused for a slot that is not bound.
LoopDetach(w, h, f) ==
    IF LoopAlreadyDetached(h)
    THEN [w |-> w, h |-> h, log |-> <<>>, ok |-> TRUE]
    ELSE LET res == Res(f, h.device_path \in w.loops)
             log == <<Call("losetup_d", h.device_path, res)>>
         IN  IF res # "ok"
             THEN [w |-> w, h |-> h, log |-> log, ok |-> FALSE]
             ELSE [w |-> [w EXCEPT !.loops = @ \ {h.device_path}],
                   h |-> [h EXCEPT !.should_cleanup = FALSE],
                   log |-> log, ok |-> TRUE]

\* impl Drop for LoopDevice: the result of detach is discarded.
LoopDrop(w, h, f) ==
    IF h.should_cleanup
    THEN LET r == LoopDetach(w, h, f) IN [w |-> r.w, log |-> r.log]
    ELSE [w |-> w, log |-> <<>>]

\* Two LoopDevice values going out of scope, first then second.
LoopDrop2(w, first, second, u) ==
    Then(LoopDrop(w, first, u[1]), LAMBDA a :
    Then(LoopDrop(a.w, second, u[2]), LAMBDA b :
        [w |-> b.w, log |-> a.log \o b.log]))

UnbindFaults == [1 .. 2 -> RunFaults]

\* ---- ThinPool ---------------------------------------------------------------

Sectors(size_mb) == (size_mb * 1024 * 1024) \div 512

ActiveNodes(w) == {n \in VolNames : w.nodes[n] # NoNode}

\* What can go wrong in ThinPool::create: in the metadata LoopDevice::create
\* (fm), in the data LoopDevice::create (fd), in initialize_metadata (fi:
\* writing the XML file, running thin_restore, its exit status) and in
\* create_pool_device (fc: blockdev --getsz, running dmsetup, its exit status).
InitFaults   == {"none", "write", "fail"}
DevFaults    == {"none", "getsz", "fail"}
NoFault      == [fm |-> "none", fd |-> "none", fi |-> "none", fc |-> "none"]
\* Only the first thing that goes wrong matters: create returns there.
PoolFaults   ==
    {NoFault}
    \cup {[NoFault EXCEPT !.fm = x] : x \in LoopFaults}
    \cup {[NoFault EXCEPT !.fd = x] : x \in LoopFaults}
    \cup {[NoFault EXCEPT !.fi = x] : x \in InitFaults}
    \cup {[NoFault EXCEPT !.fc = x] : x \in DevFaults}

\* A block count that is rounded up.
NrDataBlocks_RoundUp(data_size_sectors, data_block_size_sectors) ==
    (data_size_sectors + data_block_size_sectors - 1) \div data_block_size_sectors

\* let nr_data_blocks = data_size_sectors / data_block_size_sectors;
NrDataBlocks(data_size_sectors, data_block_size_sectors) ==
    data_size_sectors \div data_block_size_sectors

\* An initialize_metadata that returns Ok whatever happens to the XML file and
\* to thin_restore.
InitializeMetadata_Unchecked(metadata_path, data_size_mb, data_block_size_sectors, fi) ==
    IF data_block_size_sectors = 0
    THEN [ret |-> "panic", log |-> <<>>]
    ELSE [ret |-> "ok",
          log |-> IF fi = "write" THEN <<>>
                  ELSE <<Call("thin_restore",
                              [dev |-> metadata_path,
                               data_block_size |-> data_block_size_sectors,
                               nr_data_blocks |-> Sectors(data_size_mb)
                                                  \div data_block_size_sectors],
                              Res(fi, TRUE))>>]

\* ThinPool::initialize_metadata.  The division panics for a zero block size.
InitializeMetadata(metadata_path, data_size_mb, data_block_size_sectors, fi) ==
    IF data_block_size_sectors = 0
    THEN [ret |-> "panic", log |-> <<>>]
    ELSE LET data_size_sectors == Sectors(data_size_mb)
             nr_data_blocks    == NrDataBlocks(data_size_sectors,
                                               data_block_size_sectors)
             res == Res(IF fi = "write" THEN "none" ELSE fi, TRUE)
             log == <<Call("thin_restore",
                           [dev |-> metadata_path,
                            data_block_size |-> data_block_size_sectors,
                            nr_data_blocks |-> nr_data_blocks], res)>>
         IN  IF fi = "write" THEN [ret |-> "err", log |-> <<>>]
             ELSE IF res # "ok" THEN [ret |-> "err", log |-> log]
             ELSE [ret |-> "ok", log |-> log]

\* ThinPool::get_device_size_sectors: blockdev --getsz of a bound device of
\* the given size in bytes prints its size in 512-byte sectors.
GetDeviceSizeSectors(device_size_bytes) == device_size_bytes \div 512

\* The block sizes the thin-pool target accepts: 64 KiB to 1 GiB, in multiples
\* of 64 KiB.
ValidBlockSize(data_block_size_sectors) ==
    /\ data_block_size_sectors >= 128
    /\ data_block_size_sectors <= 2097152
    /\ data_block_size_sectors % 128 = 0

\* ThinPool::create_pool_device; data_dev_bytes is the size of the device at
\* data_path.  dmsetup create is refused when the name is taken or the block
\* size is not valid; on success the pool is active over freshly restored,
\* empty metadata.
CreatePoolDevice(w, metadata_path, data_path, data_dev_bytes, data_block_size_sectors, fc) ==
    LET data_size_sectors == GetDeviceSizeSectors(data_dev_bytes)
        tab == [meta |-> metadata_path, data |-> data_path,
                block |-> data_block_size_sectors, len |-> data_size_sectors]
        res == Res(IF fc = "getsz" THEN "none" ELSE fc,
                   w.dmpool = NoTab /\ ValidBlockSize(data_block_size_sectors))
        log == <<Call("dm_create_pool", tab, res)>>
    IN  IF fc = "getsz" THEN [w |-> w, ok |-> FALSE, log |-> <<>>]
        ELSE IF res # "ok" THEN [w |-> w, ok |-> FALSE, log |-> log]
        ELSE [w |-> [w EXCEPT !.dmpool = tab, !.ids = {}],
              ok |-> TRUE, log |-> log]

\* ThinPool::create.  On an error or panic after a LoopDevice was returned,
\* the locals go out of scope in reverse order of declaration: data_dev, then
\* metadata_dev.
PoolCreate(w, pool_name, metadata_size_mb, data_size_mb, data_block_size_sectors, f, u) ==
    Then(LoopCreate(w, metadata_size_mb, f.fm), LAMBDA m :
    IF ~m.ok
    THEN [w |-> m.w, log |-> m.log, ret |-> "err", h |-> NoPool]
    ELSE
    Then(LoopCreate(m.w, data_size_mb, f.fd), LAMBDA d :
    IF ~d.ok
    THEN Then(LoopDrop(d.w, m.dev, u[1]), LAMBDA x :
             [w |-> x.w, log |-> m.log \o d.log \o x.log,
              ret |-> "err", h |-> NoPool])
    ELSE
    Then(InitializeMetadata(m.dev.device_path, data_size_mb,
                            data_block_size_sectors, f.fi), LAMBDA i :
    IF i.ret # "ok"
    THEN Then(LoopDrop2(d.w, d.dev, m.dev, u), LAMBDA x :
             [w |-> x.w, log |-> m.log \o d.log \o i.log \o x.log,
              ret |-> i.ret, h |-> NoPool])
    ELSE
    Then(CreatePoolDevice(d.w, m.dev.device_path, d.dev.device_path,
                          d.size, data_block_size_sectors, f.fc),
         LAMBDA c :
    IF ~c.ok
    THEN Then(LoopDrop2(c.w, d.dev, m.dev, u), LAMBDA x :
             [w |-> x.w,
              log |-> m.log \o d.log \o i.log \o c.log \o x.log,
              ret |-> "err", h |-> NoPool])
    ELSE [w |-> c.w, log |-> m.log \o d.log \o i.log \o c.log,
          ret |-> "ok",
          h |-> [name |-> pool_name, metadata_dev |-> m.dev,
                 data_dev |-> d.dev,
                 data_block_size |-> data_block_size_sectors,
                 should_cleanup |-> TRUE]]))))

\* A create_thin_volume that does not look at the exit status of the message.
CreateThinFailed_Unchecked(res) == FALSE

\* The status check after the create_thin message (bail on failure).
CreateThinFailed(res) == res # "ok"

\* ThinPool::create_thin_volume.  The create_thin message is refused when the
\* pool is not active or the id exists; dmsetup create is refused when the
\* name is taken.  An error from dmsetup create returns with the id created.
PoolCreateThinVolume(w, h, volume_name, virtual_size_mb, device_id, fmsg, fcr) ==
    LET msgRes == Res(fmsg, w.dmpool # NoTab /\ device_id \notin w.ids)
        w1 == IF msgRes = "ok" THEN [w EXCEPT !.ids = @ \cup {device_id}] ELSE w
        virtual_size_sectors == Sectors(virtual_size_mb)
        crRes == Res(fcr, /\ w1.nodes[volume_name] = NoNode
                          /\ w1.dmpool # NoTab
                          /\ device_id \in w1.ids)
        tab == [id |-> device_id, len |-> virtual_size_sectors]
        logMsg == <<Call("create_thin", device_id, msgRes)>>
        logCr  == Append(logMsg, Call("dm_create", volume_name, crRes))
    IN  IF CreateThinFailed(msgRes)
        THEN [w |-> w1, log |-> logMsg, ret |-> "err", v |-> NoVol]
        ELSE IF crRes # "ok"
        THEN [w |-> w1, log |-> logCr, ret |-> "err", v |-> NoVol]
        ELSE [w |-> [w1 EXCEPT !.nodes[volume_name] = tab],
              log |-> logCr, ret |-> "ok",
              v |-> [name |-> volume_name, device_id |-> device_id,
                     virtual_size_mb |-> virtual_size_mb,
                     should_cleanup |-> TRUE]]

\* dmsetup remove <pool>: refused while a thin device of the pool is active.
PoolRemoveRes(w, f) ==
    IF f # "none" THEN f
    ELSE IF w.dmpool = NoTab THEN "rejected"
    ELSE IF ActiveNodes(w) # {} THEN "busy"
    ELSE "ok"

\* A remove that does not look at the exit status of dmsetup.
PoolRemoveFailed_Unchecked(res) == FALSE

\* The status check in ThinPool::remove (bail on failure).
PoolRemoveFailed(res) == res # "ok"

\* A remove that does not look at should_cleanup.
PoolAlreadyRemoved_Unchecked(h) == FALSE

\* The early return of ThinPool::remove for a pool already removed.
PoolAlreadyRemoved(h) == ~h.should_cleanup

\* A remove that goes on to detach the two loop devices of the pool.
PoolRemove_Releasing(w, h, f) ==
    IF PoolAlreadyRemoved(h)
    THEN [w |-> w, h |-> h, log |-> <<>>, ret |-> "ok"]
    ELSE LET res == PoolRemoveRes(w, f)
             w1  == IF res = "ok" THEN [w EXCEPT !.dmpool = NoTab] ELSE w
             l   == LoopDrop2(w1, h.metadata_dev, h.data_dev,
                              <<"none", "none">>)
         IN  [w |-> l.w,
              h |-> IF res = "ok" THEN [h EXCEPT !.should_cleanup = FALSE]
                    ELSE h,
              log |-> <<Call("dm_remove", h.name, res)>> \o l.log,
              ret |-> IF res = "ok" THEN "ok" ELSE "err"]

\* ThinPool::remove.
PoolRemove(w, h, f) ==
    IF PoolAlreadyRemoved(h)
    THEN [w |-> w, h |-> h, log |-> <<>>, ret |-> "ok"]
    ELSE LET res == PoolRemoveRes(w, f)
             log == <<Call("dm_remove", h.name, res)>>
         IN  IF PoolRemoveFailed(res)
             THEN [w |-> w, h |-> h, log |-> log, ret |-> "err"]
             ELSE [w |-> [w EXCEPT !.dmpool = NoTab],
                   h |-> [h EXCEPT !.should_cleanup = FALSE],
                   log |-> log, ret |-> "ok"]

\* A drop that detaches the loop devices before it removes the pool.
PoolDrop_FieldsFirst(w, h, f, u) ==
    Then(LoopDrop2(w, h.metadata_dev, h.data_dev, u), LAMBDA l :
    Then(PoolRemove(l.w, h, f), LAMBDA r :
        [w |-> r.w, log |-> l.log \o r.log]))

\* impl Drop for ThinPool, followed by the drop of its fields in declaration
\* order: metadata_dev, then data_dev.
PoolDrop(w, h, f, u) ==
    Then(PoolRemove(w, h, f), LAMBDA r :
    Then(LoopDrop2(r.w, r.h.metadata_dev, r.h.data_dev, u), LAMBDA l :
        [w |-> l.w, log |-> r.log \o l.log]))

\* ---- ThinVolume -------------------------------------------------------------

\* A create_snapshot that does not look at the exit status of the message.
CreateSnapFailed_Unchecked(res) == FALSE

\* The status check after the create_snap message (bail on failure).
CreateSnapFailed(res) == res # "ok"

\* A snapshot that gets the size of the demo's volume whatever its origin.
SnapshotSizeMb_Default(v) == DemoVolMb

\* The size create_snapshot uses for the table and the returned handle:
\* self.virtual_size_mb.
SnapshotSizeMb(v) == v.virtual_size_mb

\* ThinVolume::create_snapshot.  The create_snap message is refused when the
\* pool is not active, the origin id does not exist or the new id exists.
VolCreateSnapshot(w, v, snapshot_name, snapshot_device_id, fmsg, fcr) ==
    LET msgRes == Res(fmsg, /\ w.dmpool # NoTab
                            /\ v.device_id \in w.ids
                            /\ snapshot_device_id \notin w.ids)
        w1 == IF msgRes = "ok"
              THEN [w EXCEPT !.ids = @ \cup {snapshot_device_id}] ELSE w
        virtual_size_sectors == Sectors(SnapshotSizeMb(v))
        crRes == Res(fcr, /\ w1.nodes[snapshot_name] = NoNode
                          /\ w1.dmpool # NoTab
                          /\ snapshot_device_id \in w1.ids)
        tab == [id |-> snapshot_device_id, len |-> virtual_size_sectors]
        logMsg == <<Call("create_snap",
                         [id |-> snapshot_device_id, origin |-> v.device_id],
                         msgRes)>>
        logCr  == Append(logMsg, Call("dm_create", snapshot_name, crRes))
    IN  IF CreateSnapFailed(msgRes)
        THEN [w |-> w1, log |-> logMsg, ret |-> "err", v |-> NoVol]
        ELSE IF crRes # "ok"
        THEN [w |-> w1, log |-> logCr, ret |-> "err", v |-> NoVol]
        ELSE [w |-> [w1 EXCEPT !.nodes[snapshot_name] = tab],
              log |-> logCr, ret |-> "ok",
              v |-> [name |-> snapshot_name,
                     device_id |-> snapshot_device_id,
                     virtual_size_mb |-> SnapshotSizeMb(v),
                     should_cleanup |-> TRUE]]

\* dmsetup remove <volume>: refused while the device is mounted.
VolRemoveRes(w, name, f) ==
    IF f # "none" THEN f
    ELSE IF w.nodes[name] = NoNode THEN "rejected"
    ELSE IF name \in w.mounted THEN "busy"
    ELSE "ok"

\* The delete message: refused when the pool is not active, the id does not
\* exist, or an active thin device still uses the id.
DeleteRes(w, device_id, f) ==
    Res(f, /\ w.dmpool # NoTab
           /\ device_id \in w.ids
           /\ \A n \in VolNames : w.nodes[n].id # device_id)

\* A remove that does not look at the exit status of dmsetup remove.
VolRemoveFailed_Unchecked(res) == FALSE

\* The status check after dmsetup remove in ThinVolume::remove (bail).
VolRemoveFailed(res) == res # "ok"

\* A remove that does not look at should_cleanup.
VolAlreadyRemoved_Unchecked(v) == FALSE

\* The early return of ThinVolume::remove for a handle already removed.
VolAlreadyRemoved(v) == ~v.should_cleanup

\* ThinVolume::remove.  A delete message that cannot be run is an error (the
\* `?` on status()); one that exits non-zero is only a warning.
VolRemove(w, v, fr, fd) ==
    IF VolAlreadyRemoved(v)
    THEN [w |-> w, v |-> v, log |-> <<>>, ret |-> "ok"]
    ELSE LET rmRes  == VolRemoveRes(w, v.name, fr)
             w1     == IF rmRes = "ok"
                       THEN [w EXCEPT !.nodes[v.name] = NoNode] ELSE w
             delRes == DeleteRes(w1, v.device_id, fd)
             w2     == IF delRes = "ok"
                       THEN [w1 EXCEPT !.ids = @ \ {v.device_id}] ELSE w1
             logRm  == <<Call("dm_remove", v.name, rmRes)>>
             logDel == Append(logRm, Call("delete", v.device_id, delRes))
         IN  IF VolRemoveFailed(rmRes)
             THEN [w |-> w, v |-> v, log |-> logRm, ret |-> "err"]
             ELSE IF delRes = "spawn"
             THEN [w |-> w1, v |-> v, log |-> logDel, ret |-> "err"]
             ELSE [w |-> w2, v |-> [v EXCEPT !.should_cleanup = FALSE],
                   log |-> logDel, ret |-> "ok"]

\* impl Drop for ThinVolume: the result of remove is discarded.
VolDrop(w, v, fr, fd) ==
    LET r == VolRemove(w, v, fr, fd) IN [w |-> r.w, log |-> r.log]

\* ---- state changes shared by the actions -----------------------------------

SetWorld(w) ==
    /\ loops' = w.loops
    /\ dmpool' = w.dmpool
    /\ nodes' = w.nodes
    /\ ids' = w.ids
    /\ mounted' = w.mounted

\* Ids removed from the pool metadata by the delete messages in log.
Deleted(log) ==
    {log[i].arg : i \in {j \in DOMAIN log : log[j].cmd = "delete"
                                            /\ log[j].res = "ok"}}

\* The last operation: its name, the ThinVolume handle it was called on or
\* returned (as the operation left it), and its result.
Last(op, h, ret) == [op |-> op, h |-> h, ret |-> ret]

InitCommon ==
    /\ loops = {}
    /\ dmpool = NoTab
    /\ nodes = [n \in VolNames |-> NoNode]
    /\ ids = {}
    /\ mounted = {}
    /\ pool = NoPool
    /\ vols = {}
    /\ calls = <<>>
    /\ last = Last("init", NoVol, "ok")
    /\ released = {}
    /\ faults = 0
    /\ devs = {}
    /\ xml_file = NoXml
    /\ thr = <<>>
    /\ conc = [meta |-> <<>>, dm |-> <<>>]
    /\ snapshots = [k \in SnapshotIds |-> NoSnapshot]

\* ---- a caller of the API -----------------------------------------------------

Init == InitCommon /\ pc = "api"

\* Outside failures that may still be injected.
Budget == IF pc = "sizes" THEN 0 ELSE MaxFaults - faults

CreateFaults == [fmsg : RunFaults, fcr : RunFaults]
RemoveFaults == [fr : RunFaults, fd : CmdFaults]
PoolRemoveFaults == [f : RunFaults]

\* The virtual sizes the caller passes: one size, or two where the caller
\* meets no outside failures (InitSizes).
CallerSizes == IF pc = "sizes" THEN TwoSizesMb ELSE VolSizesMb

\* The caller keeps a returned handle, if it has room for one more.
Keep(r) == IF r.ret = "ok" THEN vols \cup {r.v} ELSE vols

ApiPoolCreate ==
    /\ pool = NoPool
    /\ \E dsz \in DataSizesMb, bs \in BlockSizes, f \in PoolFaults,
          u \in UnbindFaults :
         /\ Count(f) + Count(u) <= Budget
         /\ \E r \in {PoolCreate(World, PoolName, DemoMetaMb, dsz, bs, f, u)} :
                /\ SetWorld(r.w)
                /\ pool' = r.h
                /\ calls' = r.log
                /\ last' = Last("pool_create", NoVol, r.ret)
                /\ released' = IF r.ret = "ok" THEN {} ELSE released
                /\ faults' = faults + Count(f) + Count(u)
    /\ UNCHANGED <<vols, pc>>
    /\ UNCHANGED aux

ApiCreateThinVolume ==
    /\ pool # NoPool
    /\ Cardinality(vols) < MaxVols
    /\ \E n \in VolNames, sz \in CallerSizes, id \in Ids, f \in CreateFaults :
         /\ Count(f) <= Budget
         /\ \E r \in {PoolCreateThinVolume(World, pool, n, sz, id, f.fmsg, f.fcr)} :
                /\ SetWorld(r.w)
                /\ vols' = Keep(r)
                /\ calls' = r.log
                /\ last' = Last("create_thin_volume", r.v, r.ret)
                /\ faults' = faults + Count(f)
    /\ UNCHANGED <<pool, released, pc>>
    /\ UNCHANGED aux

ApiCreateSnapshot ==
    /\ Cardinality(vols) < MaxVols
    /\ \E o \in vols, n \in VolNames, id \in Ids, f \in CreateFaults :
         /\ Count(f) <= Budget
         /\ \E r \in {VolCreateSnapshot(World, o, n, id, f.fmsg, f.fcr)} :
                /\ SetWorld(r.w)
                /\ vols' = Keep(r)
                /\ calls' = r.log
                /\ last' = Last("create_snapshot", r.v, r.ret)
                /\ faults' = faults + Count(f)
    /\ UNCHANGED <<pool, released, pc>>
    /\ UNCHANGED aux

ApiVolRemove ==
    /\ \E v \in vols, f \in RemoveFaults :
         /\ Count(f) <= Budget
         /\ \E r \in {VolRemove(World, v, f.fr, f.fd)} :
                /\ SetWorld(r.w)
                /\ vols' = (vols \ {v}) \cup {r.v}
                /\ calls' = r.log
                /\ last' = Last("vol_remove", r.v, r.ret)
                /\ released' = released \cup Deleted(r.log)
                /\ faults' = faults + Count(f)
    /\ UNCHANGED <<pool, pc>>
    /\ UNCHANGED aux

ApiVolDrop ==
    /\ \E v \in vols, f \in RemoveFaults :
         /\ Count(f) <= Budget
         /\ \E r \in {VolDrop(World, v, f.fr, f.fd)} :
                /\ SetWorld(r.w)
                /\ vols' = vols \ {v}
                /\ calls' = r.log
                /\ last' = Last("vol_drop", v, "ok")
                /\ released' = released \cup Deleted(r.log)
                /\ faults' = faults + Count(f)
    /\ UNCHANGED <<pool, pc>>
    /\ UNCHANGED aux

ApiPoolRemove ==
    /\ pool # NoPool
    /\ \E f \in PoolRemoveFaults :
         /\ Count(f) <= Budget
         /\ \E r \in {PoolRemove(World, pool, f.f)} :
                /\ SetWorld(r.w)
                /\ pool' = r.h
                /\ calls' = r.log
                /\ last' = Last("pool_remove", NoVol, r.ret)
                /\ faults' = faults + Count(f)
    /\ UNCHANGED <<vols, released, pc>>
    /\ UNCHANGED aux

ApiPoolDrop ==
    /\ pool # NoPool
    /\ \E f \in PoolRemoveFaults, u \in UnbindFaults :
         /\ Count(f) + Count(u) <= Budget
         /\ \E r \in {PoolDrop(World, pool, f.f, u)} :
                /\ SetWorld(r.w)
                /\ pool' = NoPool
                /\ calls' = r.log
                /\ last' = Last("pool_drop", NoVol, "ok")
                /\ faults' = faults + Count(f) + Count(u)
    /\ UNCHANGED <<vols, released, pc>>
    /\ UNCHANGED aux

\* mount / umount of a volume's device_path(), as the demo does around its
\* writes.
ApiMount ==
    /\ \E v \in vols :
         /\ nodes[v.name] # NoNode
         /\ v.name \notin mounted
         /\ mounted' = mounted \cup {v.name}
         /\ last' = Last("mount", v, "ok")
    /\ calls' = <<>>
    /\ UNCHANGED <<loops, dmpool, nodes, ids, pool, vols, released, faults, pc>>
    /\ UNCHANGED aux

ApiUmount ==
    /\ \E n \in mounted :
         /\ mounted' = mounted \ {n}
         /\ last' = Last("umount", NoVol, "ok")
    /\ calls' = <<>>
    /\ UNCHANGED <<loops, dmpool, nodes, ids, pool, vols, released, faults, pc>>
    /\ UNCHANGED aux

Next ==
    \/ ApiPoolCreate
    \/ ApiCreateThinVolume
    \/ ApiCreateSnapshot
    \/ ApiVolRemove
    \/ ApiVolDrop
    \/ ApiPoolRemove
    \/ ApiPoolDrop
    \/ ApiMount
    \/ ApiUmount

Spec == Init /\ [][Next]_vars

\* The same caller passing volumes of two sizes, all of whose commands run
\* and exit as the control layer decides (no outside failure).
InitSizes == InitCommon /\ pc = "sizes"

SizesSpec == InitSizes /\ [][Next]_vars

\* ---- demonstrate_thin_provisioning ------------------------------------------

InitDemo == InitCommon /\ pc = "create_pool"

\* The locals of demonstrate_thin_provisioning that own resources.
BaseVolume == {v \in vols : v.name = BaseName}
Snapshot   == {v \in vols : v.name = SnapName}

\* What can go wrong while the locals are dropped: the two calls of each
\* ThinVolume::remove, the pool's dmsetup remove and the two losetup -d.
ExitFaults == [sr : RunFaults, sd : CmdFaults, br : RunFaults, bd : CmdFaults,
               pr : RunFaults, um : RunFaults, ud : RunFaults]
NoExitFault == [sr |-> "none", sd |-> "none", br |-> "none", bd |-> "none",
                pr |-> "none", um |-> "none", ud |-> "none"]

\* Leaving the function: the locals are dropped in reverse order of
\* declaration, snapshot, then base_volume, then pool.
ScopeExit(w, p, vs, x) ==
    Then(IF \E v \in vs : v.name = SnapName
         THEN VolDrop(w, CHOOSE v \in vs : v.name = SnapName, x.sr, x.sd)
         ELSE [w |-> w, log |-> <<>>], LAMBDA s :
    Then(IF \E v \in vs : v.name = BaseName
         THEN VolDrop(s.w, CHOOSE v \in vs : v.name = BaseName, x.br, x.bd)
         ELSE [w |-> s.w, log |-> <<>>], LAMBDA b :
    Then(IF p # NoPool
         THEN PoolDrop(b.w, p, x.pr, <<x.um, x.ud>>)
         ELSE [w |-> b.w, log |-> <<>>], LAMBDA d :
        [w |-> d.w, log |-> s.log \o b.log \o d.log])))

\* What one step of the function does: the kernel state w it leaves, the
\* calls it issued, its result ("ok": the function goes on to next; anything
\* else: the function returns it), the handles it returned, and the number n
\* of outside failures it met.
Step(w, log, ret, p, vs, next, n) ==
    [w |-> w, log |-> log, ret |-> ret, pool |-> p, vols |-> vs,
     next |-> next, n |-> n]

\* The function goes on after the step st, or returns st.ret; the entry
\* "return" separates the step's calls from those of the teardown.
DemoApply(st, x) ==
    IF st.ret = "ok" /\ st.next # "done"
    THEN /\ SetWorld(st.w)
         /\ calls' = st.log
         /\ last' = Last(pc, NoVol, "ok")
         /\ pool' = st.pool
         /\ vols' = st.vols
         /\ pc' = st.next
         /\ faults' = faults + st.n
         /\ x = NoExitFault
         /\ UNCHANGED <<released, aux>>
    ELSE \E e \in {ScopeExit(st.w, st.pool, st.vols, x)} :
             /\ SetWorld(e.w)
             /\ calls' = st.log \o <<Call("return", st.ret, "ok")>> \o e.log
             /\ last' = Last(pc, NoVol, st.ret)
             /\ pool' = NoPool
             /\ vols' = {}
             /\ pc' = "done"
             /\ faults' = faults + st.n + Count(x)
             /\ released' = released \cup Deleted(e.log)
             /\ UNCHANGED aux

\* let pool = ThinPool::create("demo-pool", 100, 1024, 2048)?;
DemoCreatePool ==
    /\ pc = "create_pool"
    /\ \E f \in PoolFaults, u \in UnbindFaults, x \in ExitFaults :
         /\ Count(f) + Count(u) + Count(x) <= Budget
         /\ \E r \in {PoolCreate(World, PoolName, DemoMetaMb, DemoDataMb,
                                DemoBlock, f, u)} :
                DemoApply(Step(r.w, r.log, r.ret, r.h, vols, "create_base",
                               Count(f) + Count(u)), x)

\* let base_volume = pool.create_thin_volume("demo-base", 500, 0)?;
DemoCreateBase ==
    /\ pc = "create_base"
    /\ \E f \in CreateFaults, x \in ExitFaults :
         /\ Count(f) + Count(x) <= Budget
         /\ \E r \in {PoolCreateThinVolume(World, pool, BaseName, DemoVolMb,
                                          DemoBaseId, f.fmsg, f.fcr)} :
                DemoApply(Step(r.w, r.log, r.ret, pool,
                               IF r.ret = "ok" THEN vols \cup {r.v} ELSE vols,
                               "mkfs", Count(f)), x)

\* let snapshot = base_volume.create_snapshot("demo-snapshot", 1)?;
DemoCreateSnapshot ==
    /\ pc = "create_snap"
    /\ \E f \in CreateFaults, x \in ExitFaults, b \in BaseVolume :
         /\ Count(f) + Count(x) <= Budget
         /\ \E r \in {VolCreateSnapshot(World, b, SnapName, DemoSnapId,
                                       f.fmsg, f.fcr)} :
                DemoApply(Step(r.w, r.log, r.ret, pool,
                               IF r.ret = "ok" THEN vols \cup {r.v} ELSE vols,
                               "mount_snap", Count(f)), x)

\* The steps between the API calls: the step each goes on to, and the volume
\* it mounts, uses or unmounts.
DemoNext(step) ==
    CASE step = "mkfs"          -> "mount_base"
      [] step = "mount_base"    -> "write_base"
      [] step = "write_base"    -> "umount_base"
      [] step = "umount_base"   -> "create_snap"
      [] step = "mount_snap"    -> "write_snap"
      [] step = "write_snap"    -> "umount_snap"
      [] step = "umount_snap"   -> "mount_verify"
      [] step = "mount_verify"  -> "verify"
      [] step = "verify"        -> "umount_verify"
      [] step = "umount_verify" -> "status"
      [] OTHER                  -> "done"
DemoDevice(step) ==
    IF step \in {"mount_snap", "write_snap", "umount_snap"}
    THEN SnapName ELSE BaseName

\* A step that calls nothing in the control layer: it goes on, or fails with
\* ret for a reason outside the model.
Glue(w, ret) ==
    Step(w, <<>>, ret, pool, vols, DemoNext(pc), IF ret = "ok" THEN 0 ELSE 1)

\* mkfs.ext4 on the base volume and create_dir_all of the mount point.
DemoFormat ==
    /\ pc = "mkfs"
    /\ \E ret \in {"ok", "err"}, x \in ExitFaults :
         /\ (IF ret = "ok" THEN 0 ELSE 1) + Count(x) <= Budget
         /\ DemoApply(Glue(World, ret), x)

\* nix::mount::mount(...)?: on failure nothing is mounted.
DemoMount ==
    /\ pc \in {"mount_base", "mount_snap", "mount_verify"}
    /\ \E ret \in {"ok", "err"}, x \in ExitFaults :
         /\ (IF ret = "ok" THEN 0 ELSE 1) + Count(x) <= Budget
         /\ ret = "ok" => nodes[DemoDevice(pc)] # NoNode
         /\ DemoApply(Glue(IF ret = "ok"
                           THEN [World EXCEPT !.mounted = @ \cup {DemoDevice(pc)}]
                           ELSE World, ret), x)

\* The writes, reads and assertions made while a volume is mounted; an error
\* or a failed assertion leaves the function with the volume mounted.
DemoUse ==
    /\ pc \in {"write_base", "write_snap", "verify"}
    /\ \E ret \in {"ok", "err", "panic"}, x \in ExitFaults :
         /\ (IF ret = "ok" THEN 0 ELSE 1) + Count(x) <= Budget
         /\ ret = "panic" => pc = "verify"
         /\ DemoApply(Glue(World, ret), x)

\* nix::mount::umount(...)?: on failure the volume stays mounted.
DemoUmount ==
    /\ pc \in {"umount_base", "umount_snap", "umount_verify"}
    /\ \E ret \in {"ok", "err"}, x \in ExitFaults :
         /\ (IF ret = "ok" THEN 0 ELSE 1) + Count(x) <= Budget
         /\ DemoApply(Glue(IF ret = "ok"
                           THEN [World EXCEPT !.mounted = @ \ {DemoDevice(pc)}]
                           ELSE World, ret), x)

\* remove_dir, dmsetup status, and the final Ok(()).
DemoFinish ==
    /\ pc = "status"
    /\ \E ret \in {"ok", "err"}, x \in ExitFaults :
         /\ (IF ret = "ok" THEN 0 ELSE 1) + Count(x) <= Budget
         /\ DemoApply(Glue(World, ret), x)

\* The program is run again; what the previous run left in the kernel is
\* still there.  MaxFaults bounds the outside failures of each run.
DemoRestart ==
    /\ pc = "done"
    /\ pc' = "create_pool"
    /\ calls' = <<>>
    /\ last' = Last("init", NoVol, "ok")
    /\ released' = {}
    /\ faults' = 0
    /\ UNCHANGED <<loops, dmpool, nodes, ids, mounted, pool, vols>>
    /\ UNCHANGED aux

NextDemo ==
    \/ DemoCreatePool
    \/ DemoCreateBase
    \/ DemoFormat
    \/ DemoMount
    \/ DemoUse
    \/ DemoUmount
    \/ DemoCreateSnapshot
    \/ DemoFinish
    \/ DemoRestart

DemoSpec == InitDemo /\ [][NextDemo]_vars

\* ---- a caller of LoopDevice ------------------------------------------------

InitLoop == InitCommon /\ pc = "loop"

\* Number of failures a LoopDevice::create or a losetup -d meets.
Count1(f) == IF f = "none" THEN 0 ELSE 1

\* LoopDevice::create(backing_file, 100)?, as in demonstrate_loop_device.
LoopApiCreate ==
    /\ pc = "loop"
    /\ Cardinality(devs) < MaxDevs
    /\ \E f \in LoopFaults :
         /\ Count1(f) <= Budget
         /\ \E r \in {LoopCreate(World, DemoMetaMb, f)} :
                /\ SetWorld(r.w)
                /\ devs' = IF r.ok THEN devs \cup {r.dev} ELSE devs
                /\ calls' = r.log
                /\ last' = Last("loop_create", r.dev, IF r.ok THEN "ok" ELSE "err")
                /\ faults' = faults + Count1(f)
    /\ UNCHANGED <<pool, vols, released, pc, xml_file, thr, conc, snapshots>>

\* loop_dev.detach()
LoopApiDetach ==
    /\ pc = "loop"
    /\ \E h \in devs, f \in RunFaults :
         /\ Count1(f) <= Budget
         /\ \E r \in {LoopDetach(World, h, f)} :
                /\ SetWorld(r.w)
                /\ devs' = (devs \ {h}) \cup {r.h}
                /\ calls' = r.log
                /\ last' = Last("loop_detach", r.h, IF r.ok THEN "ok" ELSE "err")
                /\ faults' = faults + Count1(f)
    /\ UNCHANGED <<pool, vols, released, pc, xml_file, thr, conc, snapshots>>

\* drop(loop_dev)
LoopApiDrop ==
    /\ pc = "loop"
    /\ \E h \in devs, f \in RunFaults :
         /\ Count1(f) <= Budget
         /\ \E r \in {LoopDrop(World, h, f)} :
                /\ SetWorld(r.w)
                /\ devs' = devs \ {h}
                /\ calls' = r.log
                /\ last' = Last("loop_drop", h, "ok")
                /\ faults' = faults + Count1(f)
    /\ UNCHANGED <<pool, vols, released, pc, xml_file, thr, conc, snapshots>>

NextLoop ==
    \/ LoopApiCreate
    \/ LoopApiDetach
    \/ LoopApiDrop

LoopSpec == InitLoop /\ [][NextLoop]_vars

\* ---- a caller of ThinPool::create with sizes of its choice -----------------

\* Data sizes in MB and block sizes in sectors the caller passes: block sizes
\* that divide the sector count of the data device, block sizes the thin-pool
\* target accepts that do not divide it, one it does not accept, and zero.
CreateDataSizesMb == {1, DemoDataMb}
CreateBlockSizes  == {0, 128, 3 * 128, 3000, DemoBlock}

InitCreate == InitCommon /\ pc = "create"

\* ThinPool::create(name, 100, data_size_mb, data_block_size_sectors); last
\* records the arguments.
CreateRun ==
    /\ pc = "create"
    /\ pool = NoPool
    /\ \E dsz \in CreateDataSizesMb, bs \in CreateBlockSizes, f \in PoolFaults,
          u \in UnbindFaults :
         /\ Count(f) + Count(u) <= Budget
         /\ \E r \in {PoolCreate(World, PoolName, DemoMetaMb, dsz, bs, f, u)} :
                /\ SetWorld(r.w)
                /\ pool' = r.h
                /\ calls' = r.log
                /\ last' = Last("pool_create",
                                [data_size_mb |-> dsz,
                                 data_block_size_sectors |-> bs], r.ret)
                /\ faults' = faults + Count(f) + Count(u)
    /\ UNCHANGED <<vols, released, pc>>
    /\ UNCHANGED aux

\* The pool goes out of scope.
CreateDiscard ==
    /\ pc = "create"
    /\ pool # NoPool
    /\ \E f \in PoolRemoveFaults, u \in UnbindFaults :
         /\ Count(f) + Count(u) <= Budget
         /\ \E r \in {PoolDrop(World, pool, f.f, u)} :
                /\ SetWorld(r.w)
                /\ pool' = NoPool
                /\ calls' = r.log
                /\ last' = Last("pool_drop", NoVol, "ok")
                /\ faults' = faults + Count(f) + Count(u)
    /\ UNCHANGED <<vols, released, pc>>
    /\ UNCHANGED aux

NextCreate ==
    \/ CreateRun
    \/ CreateDiscard

CreateSpec == InitCreate /\ [][NextCreate]_vars

\* ---- ThinPool::create run by several callers at once -------------------------
\* Each caller t creates a pool of its own name (t stands for the name, so
\* the backing files /tmp/<name>-metadata.img and /tmp/<name>-data.img and
\* the pool devices differ between callers) with its own block size.  Every
\* external command and every file operation is one step; no command fails
\* for an outside reason, and there is a loop slot for every device.

Threads        == 1 .. NumThreads
ConcSlots      == 0 .. (2 * NumThreads - 1)
ConcNoSlot     == 2 * NumThreads
ConcBlockSizes == {DemoBlock, 2 * DemoBlock}

InitConc == InitCommon /\ pc = "conc"

\* The variables the callers of this section leave alone.
seqvars == <<dmpool, nodes, ids, mounted, pool, vols, calls, last, released,
             faults, pc, devs, snapshots>>

\* The XML written by initialize_metadata for a pool of the given block size.
Superblock(data_size_mb, data_block_size_sectors) ==
    [data_block_size |-> data_block_size_sectors,
     nr_data_blocks  |-> Sectors(data_size_mb) \div data_block_size_sectors]

\* The callers enter ThinPool::create.
ConcStart ==
    /\ pc = "conc"
    /\ thr = <<>>
    /\ \E b \in [Threads -> ConcBlockSizes] :
         thr' = [t \in Threads |->
                   [pc |-> "meta_find", block |-> b[t], found |-> ConcNoSlot,
                    metadata_dev |-> ConcNoSlot, data_dev |-> ConcNoSlot,
                    restored |-> FALSE, err |-> "none"]]
    /\ UNCHANGED <<loops, xml_file, conc, seqvars>>

\* An error return of ThinPool::create: the LoopDevice values the caller
\* holds are dropped, which detaches them.
ConcFail(t, err) ==
    /\ thr' = [thr EXCEPT ![t].pc = "failed", ![t].err = err]
    /\ loops' = loops \ {thr[t].metadata_dev, thr[t].data_dev}

\* losetup -f in LoopDevice::create: the first unused slot is printed.
ConcFind ==
    /\ \E t \in DOMAIN thr :
         /\ thr[t].pc \in {"meta_find", "data_find"}
         /\ IF ConcSlots \ loops = {}
            THEN ConcFail(t, "find")
            ELSE /\ thr' = [thr EXCEPT
                              ![t].found = Min(ConcSlots \ loops),
                              ![t].pc = IF thr[t].pc = "meta_find"
                                        THEN "meta_attach" ELSE "data_attach"]
                 /\ UNCHANGED loops
    /\ UNCHANGED <<xml_file, conc, seqvars>>

\* losetup <device> <file> in LoopDevice::create: refused when the slot found
\* earlier has been bound in the meantime.
ConcAttach ==
    /\ \E t \in DOMAIN thr :
         /\ thr[t].pc \in {"meta_attach", "data_attach"}
         /\ IF thr[t].found \in loops
            THEN ConcFail(t, "attach")
            ELSE /\ loops' = loops \cup {thr[t].found}
                 /\ thr' = IF thr[t].pc = "meta_attach"
                           THEN [thr EXCEPT ![t].metadata_dev = thr[t].found,
                                            ![t].pc = "data_find"]
                           ELSE [thr EXCEPT ![t].data_dev = thr[t].found,
                                            ![t].pc = "xml_write"]
    /\ UNCHANGED <<xml_file, conc, seqvars>>

\* std::fs::write of /tmp/thin-metadata-init.xml in initialize_metadata.
ConcXmlWrite ==
    /\ \E t \in DOMAIN thr :
         /\ thr[t].pc = "xml_write"
         /\ xml_file' = Superblock(DemoDataMb, thr[t].block)
         /\ thr' = [thr EXCEPT ![t].pc = "thin_restore"]
    /\ UNCHANGED <<loops, conc, seqvars>>

\* thin_restore -i /tmp/thin-metadata-init.xml -o <metadata device>: it writes
\* what the file holds now, and fails when the file is not there.
ConcThinRestore ==
    /\ \E t \in DOMAIN thr :
         /\ thr[t].pc = "thin_restore"
         /\ IF xml_file = NoXml
            THEN /\ thr' = [thr EXCEPT ![t].pc = "xml_remove"]
                 /\ UNCHANGED conc
            ELSE /\ thr' = [thr EXCEPT ![t].pc = "xml_remove",
                                       ![t].restored = TRUE]
                 /\ conc' = [conc EXCEPT
                               !.meta = (thr[t].metadata_dev :> xml_file) @@ @]
    /\ UNCHANGED <<loops, xml_file, seqvars>>

\* let _ = std::fs::remove_file(&xml_file), then the check of the status of
\* thin_restore.
ConcXmlRemove ==
    /\ \E t \in DOMAIN thr :
         /\ thr[t].pc = "xml_remove"
         /\ IF thr[t].restored
            THEN /\ thr' = [thr EXCEPT ![t].pc = "dm_create"]
                 /\ UNCHANGED loops
            ELSE ConcFail(t, "thin_restore")
    /\ xml_file' = NoXml
    /\ UNCHANGED <<conc, seqvars>>

\* dmsetup create <name> in create_pool_device, and the final Ok(Self {..}).
ConcDmCreate ==
    /\ \E t \in DOMAIN thr :
         /\ thr[t].pc = "dm_create"
         /\ conc' = [conc EXCEPT
                       !.dm = (t :> [meta |-> thr[t].metadata_dev,
                                     data |-> thr[t].data_dev,
                                     block |-> thr[t].block,
                                     len |-> GetDeviceSizeSectors(
                                                 DemoDataMb * 1024 * 1024)])
                              @@ @]
         /\ thr' = [thr EXCEPT ![t].pc = "done"]
    /\ UNCHANGED <<loops, xml_file, seqvars>>

NextConc ==
    \/ ConcStart
    \/ ConcFind
    \/ ConcAttach
    \/ ConcXmlWrite
    \/ ConcThinRestore
    \/ ConcXmlRemove
    \/ ConcDmCreate

ConcSpec == InitConc /\ [][NextConc]_vars

\* ---- OverlaySnapshotter (Rust/overlay-mount/src/main.rs) ----------------------

\* Sequences of at most n elements of S.
SeqUpTo(S, n) == UNION {[1 .. k -> S] : k \in 0 .. n}

\* The caller's lists of image snapshot ids and of parent ids.
ImageIdLists == SeqUpTo(LayerIds, MaxLayers)
ParentIdLists == SeqUpTo(LayerIds, 1)

\* What the file system and tar do to one call.
MkdirOutcomes == {"ok", "mkdir_err"}
TarOutcomes   == {"ok", "mkdir_err", "tar_spawn_err", "tar_exit_err"}

\* root.join("snapshots").join(id), relative to root.
SnapshotDir(id) == <<"snapshots", id>>

\* Snapshot::new
SnapshotNew(id, fs_dir, parents) ==
    [id |-> id, fs_dir |-> fs_dir, parents |-> parents]

\* HashMap::contains_key and HashMap::insert on the registry.
ContainsKey(reg, k) == reg[k] # NoSnapshot
Insert(reg, k, v) == [reg EXCEPT ![k] = v]

\* OverlayConfig::new: refuses an empty list of lower directories.
OverlayConfigNew(lower_dirs, upper_dir, work_dir, merged_dir) ==
    IF lower_dirs = <<>>
    THEN [ret |-> "err", config |-> NoConfig]
    ELSE [ret |-> "ok",
          config |-> [lower_dirs |-> lower_dirs, upper_dir |-> upper_dir,
                      work_dir |-> work_dir, merged_dir |-> merged_dir]]

\* OverlaySnapshotter::unpack_layer: the snapshot is inserted after the
\* directory was created and tar has exited with success.
UnpackLayer(reg, layer_id, parent_ids, outcome) ==
    LET fs_dir == Append(SnapshotDir(layer_id), "fs")
    IN  IF outcome # "ok"
        THEN [snapshots |-> reg, ret |-> "err"]
        ELSE [snapshots |-> Insert(reg, layer_id,
                                   SnapshotNew(layer_id, fs_dir, parent_ids)),
              ret |-> "ok"]

\* OverlaySnapshotter::prepare_container: every id is looked up, the three
\* directories are created, the container's snapshot is inserted, and then
\* OverlayConfig::new is called and its error propagated.
PrepareContainer(reg, container_id, image_snapshot_ids, outcome) ==
    LET upper_dir  == Append(SnapshotDir(container_id), "fs")
        work_dir   == Append(SnapshotDir(container_id), "work")
        merged_dir == Append(SnapshotDir(container_id), "merged")
    IN  IF \E i \in DOMAIN image_snapshot_ids :
               ~ContainsKey(reg, image_snapshot_ids[i])
        THEN [snapshots |-> reg, ret |-> "err", config |-> NoConfig]
        ELSE IF outcome # "ok"
        THEN [snapshots |-> reg, ret |-> "err", config |-> NoConfig]
        ELSE LET lower_dirs == [i \in DOMAIN image_snapshot_ids |->
                                   reg[image_snapshot_ids[i]].fs_dir]
                 inserted == Insert(reg, container_id,
                                    SnapshotNew(container_id, upper_dir,
                                             image_snapshot_ids))
                 new == OverlayConfigNew(lower_dirs, upper_dir, work_dir,
                                         merged_dir)
             IN  [snapshots |-> inserted, ret |-> new.ret,
                  config |-> new.config]

InitOverlay == InitCommon /\ pc = "overlay"

\* The variables the snapshotter leaves alone.
dmvars == <<loops, dmpool, nodes, ids, mounted, pool, vols, calls, released,
            faults, pc, devs, xml_file, thr, conc>>

OvUnpackLayer ==
    \E layer_id \in LayerIds, parent_ids \in ParentIdLists,
       outcome \in TarOutcomes :
        \E r \in {UnpackLayer(snapshots, layer_id, parent_ids, outcome)} :
            /\ snapshots' = r.snapshots
            /\ last' = Last("unpack_layer",
                            [id |-> layer_id, ids |-> parent_ids], r.ret)
            /\ UNCHANGED dmvars

OvPrepareContainer ==
    \E container_id \in ContainerIds, image_snapshot_ids \in ImageIdLists,
       outcome \in MkdirOutcomes :
        \E r \in {PrepareContainer(snapshots, container_id,
                                   image_snapshot_ids, outcome)} :
            /\ snapshots' = r.snapshots
            /\ last' = Last("prepare_container",
                            [id |-> container_id, ids |-> image_snapshot_ids],
                            r.ret)
            /\ UNCHANGED dmvars

NextOverlay ==
    \/ OvUnpackLayer
    \/ OvPrepareContainer

OverlaySpec == InitOverlay /\ [][NextOverlay]_vars

\* ---- properties ---------------------------------------------------------------

CreateOps == {"create_thin_volume", "create_snapshot"}

\* The calls of the last operation with the given command.
CallsOf(cmd) == {i \in DOMAIN calls : calls[i].cmd = cmd}

\* C1: ThinPool::remove called while a thin device of the pool is active
\* returns an error and changes nothing: the pool stays active and the handle
\* still has should_cleanup set.
C1_RemoveInUseFails ==
    [][(last'.op = "pool_remove" /\ ActiveNodes(World) # {})
       => /\ last'.ret = "err"
          /\ dmpool' = dmpool /\ dmpool' # NoTab
          /\ pool' = pool /\ pool'.should_cleanup
          /\ UNCHANGED <<loops, nodes, ids, mounted, vols>>]_vars

C1_Witness ==
    /\ last.op = "pool_remove"
    /\ last.ret = "err"
    /\ calls = <<Call("dm_remove", PoolName, "busy")>>
    /\ ActiveNodes(World) # {}
    /\ pool.should_cleanup

\* The calls issued while the locals of demonstrate_thin_provisioning were
\* dropped: those after the entry "return".
Teardown ==
    IF CallsOf("return") = {} THEN <<>>
    ELSE SubSeq(calls, Min(CallsOf("return")) + 1, Len(calls))

\* The steps of the function that follow the creation of the snapshot.
AfterConstruction ==
    {"mount_snap", "write_snap", "umount_snap", "mount_verify", "verify",
     "umount_verify", "status"}

\* No call of the sequence failed for a reason outside the control layer.
NoOutsideFailure(log) == \A i \in DOMAIN log : log[i].res \notin {"fail", "spawn"}

\* C2: when the function leaves its scope after pool, base volume and snapshot
\* were constructed, the teardown removes the snapshot, then the base volume,
\* then the pool, then unbinds the metadata and the data device, and the
\* control layer accepts every one of these calls (the pool removal is never
\* refused as in use).
C2_TeardownAccepted ==
    (pc = "done" /\ last.op \in AfterConstruction /\ NoOutsideFailure(Teardown))
    => /\ [i \in DOMAIN Teardown |-> Teardown[i].cmd]
            = <<"dm_remove", "delete", "dm_remove", "delete", "dm_remove",
                "losetup_d", "losetup_d">>
       /\ Teardown[1].arg = SnapName
       /\ Teardown[3].arg = BaseName
       /\ Teardown[5].arg = PoolName
       /\ \A i \in DOMAIN Teardown : Teardown[i].res = "ok"

\* C3: while the pool is active, its metadata device and its data device are
\* bound.
C3_BackingBoundWhileActive ==
    dmpool # NoTab => (dmpool.meta \in loops /\ dmpool.data \in loops)

\* C4: when create_thin_volume fails at dmsetup create after its create_thin
\* message for an id succeeded, a delete message for that id was sent and the
\* id is no longer in the pool.
C4_CreateCompensates ==
    (/\ last.op = "create_thin_volume"
     /\ Len(calls) = 2
     /\ calls[1].res = "ok"
     /\ calls[2].res # "ok")
    => /\ \E i \in CallsOf("delete") : calls[i].arg = calls[1].arg
       /\ calls[1].arg \notin ids

\* The handles whose thin device is active in the pool.
LiveVols == {v \in vols : v.should_cleanup /\ nodes[v.name].id = v.device_id}

\* C5: the device ids of the live volumes and snapshots of the pool are
\* pairwise distinct, and each of them exists in the pool.
C5_LiveIdsDistinct ==
    /\ \A n1, n2 \in ActiveNodes(World) :
         n1 # n2 => nodes[n1].id # nodes[n2].id
    /\ \A v1, v2 \in LiveVols : v1 # v2 => v1.device_id # v2.device_id
    /\ \A n \in ActiveNodes(World) : nodes[n].id \in ids

C5_Witness ==
    /\ last.op = "create_thin_volume"
    /\ last.ret = "err"
    /\ \E v \in LiveVols :
         calls = <<Call("create_thin", v.device_id, "rejected")>>

\* C6: a device id released by removing its volume is not given to a later
\* create_thin_volume or create_snapshot on the same pool.
C6_ReleasedIdNotReused ==
    (last.op \in CreateOps /\ last.ret = "ok")
    => last.h.device_id \notin released

\* C7: when the bound device reports a size other than the requested one,
\* the slot is unbound again before LoopDevice::create returns the error.
C7_MismatchUnbinds ==
    \A i \in CallsOf("blockdev") :
        calls[i].res = "mismatch"
        => /\ \E j \in CallsOf("losetup_d") :
                j > i /\ calls[j].arg = calls[i].arg /\ calls[j].res = "ok"
           /\ calls[i].arg \notin loops

\* C8: when ThinPool::create fails, an unbind was issued for every slot it had
\* bound, and no pool handle is returned.
C8_FailedCreateUnbinds ==
    (last.op = "pool_create" /\ last.ret # "ok")
    => /\ \A i \in CallsOf("losetup") :
            calls[i].res = "ok"
            => \E j \in CallsOf("losetup_d") :
                   j > i /\ calls[j].arg = calls[i].arg
       /\ pool = NoPool

\* C9: when the dmsetup remove of ThinVolume::remove fails, remove returns an
\* error, sends no delete message, leaves the ids of the pool as they were and
\* leaves should_cleanup set on the handle.
C9_NodeRemovalFailureKeepsVolume ==
    [][(last'.op = "vol_remove" /\ calls' # <<>> /\ calls'[1].res # "ok")
       => /\ last'.ret = "err"
          /\ Len(calls') = 1
          /\ ids' = ids
          /\ nodes' = nodes
          /\ last'.h.should_cleanup
          /\ last'.h \in vols']_vars

C9_Witness ==
    /\ last.op = "vol_remove"
    /\ last.ret = "err"
    /\ calls = <<Call("dm_remove", last.h.name, "busy")>>
    /\ last.h.should_cleanup
    /\ last.h.device_id \in ids

\* C10: when the dmsetup remove of ThinVolume::remove succeeded, remove returns
\* Ok and clears should_cleanup whatever way the delete message fails.
C10_DeleteFailureIsNotFatal ==
    (/\ last.op = "vol_remove"
     /\ Len(calls) = 2
     /\ calls[1].res = "ok"
     /\ calls[2].res # "ok")
    => (last.ret = "ok" /\ ~last.h.should_cleanup)

\* C11: after ThinVolume::remove has returned Ok the handle has should_cleanup
\* cleared, and for a handle with should_cleanup cleared every further remove
\* and the drop return Ok, issue no dmsetup remove and no delete message, and
\* change nothing, whatever would go wrong in a call.
C11_VolRemoveIdempotent ==
    [][/\ (last'.op = "vol_remove" /\ last'.ret = "ok")
          => (~last'.h.should_cleanup /\ last'.h \in vols')
       /\ \A v \in vols' :
            ~v.should_cleanup
            => \A f \in RemoveFaults :
                 /\ VolRemove(World', v, f.fr, f.fd)
                      = [w |-> World', v |-> v, log |-> <<>>, ret |-> "ok"]
                 /\ VolDrop(World', v, f.fr, f.fd)
                      = [w |-> World', log |-> <<>>]]_vars

\* A second remove on a handle whose first remove succeeded.
C11_Witness ==
    /\ last.op = "vol_remove"
    /\ last.ret = "ok"
    /\ calls = <<>>
    /\ ~last.h.should_cleanup
    /\ last.h \in vols

\* C12: ThinPool::remove called when no thin device of the pool is active
\* returns Ok, removes the pool and clears should_cleanup, unless dmsetup
\* fails for an outside reason; a further remove returns Ok, issues no call
\* and changes nothing, and the drop of a removed pool issues no dmsetup
\* remove.
C12_PoolRemoveIdempotent ==
    [][/\ (/\ last'.op = "pool_remove"
           /\ pool.should_cleanup
           /\ ActiveNodes(World) = {}
           /\ NoOutsideFailure(calls'))
          => /\ last'.ret = "ok"
             /\ calls' = <<Call("dm_remove", pool.name, "ok")>>
             /\ ~pool'.should_cleanup
             /\ dmpool' = NoTab
       /\ (last'.op = "pool_remove" /\ ~pool.should_cleanup)
          => /\ last'.ret = "ok"
             /\ calls' = <<>>
             /\ pool' = pool
             /\ World' = World
       /\ (last'.op = "pool_drop" /\ ~pool.should_cleanup)
          => \A i \in DOMAIN calls' : calls'[i].cmd # "dm_remove"]_vars

\* A second remove on a pool whose first remove succeeded.
C12_Witness ==
    /\ last.op = "pool_remove"
    /\ last.ret = "ok"
    /\ calls = <<>>
    /\ pool # NoPool
    /\ ~pool.should_cleanup
    /\ dmpool = NoTab

\* C13: after LoopDevice::detach has returned Ok the handle has should_cleanup
\* cleared, and for a handle with should_cleanup cleared every further detach
\* and the drop succeed, issue no losetup -d and change nothing.
C13_DetachIdempotent ==
    [][/\ (last'.op = "loop_detach" /\ last'.ret = "ok")
          => (~last'.h.should_cleanup /\ last'.h \in devs')
       /\ \A h \in devs' :
            ~h.should_cleanup
            => \A f \in RunFaults :
                 /\ LoopDetach(World', h, f)
                      = [w |-> World', h |-> h, log |-> <<>>, ok |-> TRUE]
                 /\ LoopDrop(World', h, f) = [w |-> World', log |-> <<>>]]_vars

\* A second detach on a handle whose first detach succeeded.
C13_Witness ==
    /\ last.op = "loop_detach"
    /\ last.ret = "ok"
    /\ calls = <<>>
    /\ ~last.h.should_cleanup
    /\ last.h \in devs

\* C14: when the losetup -d of LoopDevice::detach fails, detach returns the
\* error and should_cleanup is cleared all the same.
C14_FailedUnbindMarksReleased ==
    (last.op = "loop_detach" /\ calls # <<>> /\ calls[1].res # "ok")
    => (last.ret = "err" /\ ~last.h.should_cleanup)

\* C15: a handle returned by create_snapshot has the virtual size of the
\* handle it was called on, the table of the snapshot's device has that size
\* in sectors, and no later operation changes the size recorded in a handle
\* or the table of an active device.
C15_SnapshotSizeFromOrigin ==
    [][/\ \A o \in vols, n \in VolNames, id \in Ids, f \in CreateFaults :
            \A r \in {VolCreateSnapshot(World, o, n, id, f.fmsg, f.fcr)} :
                r.ret = "ok"
                => /\ r.v.virtual_size_mb = o.virtual_size_mb
                   /\ r.w.nodes[n].len = Sectors(o.virtual_size_mb)
       /\ (last'.op = "create_snapshot" /\ last'.ret = "ok")
          => /\ last'.h \in vols'
             /\ \E o \in vols :
                  /\ calls'[1].arg.origin = o.device_id
                  /\ last'.h.virtual_size_mb = o.virtual_size_mb
                  /\ nodes'[last'.h.name].len = Sectors(o.virtual_size_mb)
       /\ \A v \in vols' :
            \/ \E o \in vols : /\ v.name = o.name
                               /\ v.device_id = o.device_id
                               /\ v.virtual_size_mb = o.virtual_size_mb
            \/ (last'.op \in CreateOps /\ last'.ret = "ok" /\ v = last'.h)
       /\ \A n \in VolNames :
            (nodes[n] # NoNode /\ nodes'[n] # NoNode) => nodes'[n] = nodes[n]]_vars

\* A snapshot of a volume of the larger size was created.
C15_Witness ==
    /\ last.op = "create_snapshot"
    /\ last.ret = "ok"
    /\ last.h.virtual_size_mb = 2 * DemoVolMb
    /\ nodes[last.h.name] = [id |-> last.h.device_id, len |-> Sectors(2 * DemoVolMb)]
    /\ \E o \in vols : o # last.h /\ o.virtual_size_mb = 2 * DemoVolMb

\* C16: when several callers run ThinPool::create for different pool names at
\* the same time, thin_restore fails for none of them, and once it has run
\* for a caller, that caller's metadata device holds the superblock of the
\* caller's own block size and block count.
C16_ConcurrentCreatesIndependent ==
    \A t \in DOMAIN thr :
        /\ thr[t].err # "thin_restore"
        /\ ~(thr[t].pc = "xml_remove" /\ ~thr[t].restored)
        /\ thr[t].restored
           => conc.meta[thr[t].metadata_dev]
                = Superblock(DemoDataMb, thr[t].block)

\* C17: when several callers run LoopDevice::create for different backing
\* files at the same time and there are free slots for all of them, no attach
\* fails and the callers end up with different slots.
C17_ConcurrentLoopCreatesSucceed ==
    /\ \A t \in DOMAIN thr : thr[t].err # "attach"
    /\ \A t, u \in DOMAIN thr :
         (t # u /\ thr[t].metadata_dev # ConcNoSlot)
         => thr[t].metadata_dev \notin {thr[u].metadata_dev, thr[u].data_dev}

\* C18: ThinPool::remove, whether it returns Ok or an error, issues no
\* losetup -d, leaves the set of bound loop devices as it was and leaves the
\* LoopDevice values of the pool as they were.
C18_PoolRemoveKeepsBacking ==
    [][last'.op = "pool_remove"
       => /\ loops' = loops
          /\ \A i \in DOMAIN calls' : calls'[i].cmd # "losetup_d"
          /\ pool'.metadata_dev = pool.metadata_dev
          /\ pool'.data_dev = pool.data_dev]_vars

\* The pool was removed by an explicit remove and both loop devices are
\* still attached and still owned by the handle.
C18_Witness ==
    /\ last.op = "pool_remove"
    /\ last.ret = "ok"
    /\ calls = <<Call("dm_remove", PoolName, "ok")>>
    /\ pool.metadata_dev.should_cleanup
    /\ pool.data_dev.should_cleanup
    /\ {pool.metadata_dev.device_path, pool.data_dev.device_path} \subseteq loops

\* C19: in a run of ThinPool::create thin_restore is run at most once, on a
\* loop device that an earlier losetup of the run has bound and that has not
\* been detached, and dmsetup create of the pool is issued only after a
\* thin_restore that succeeded.
C19_MetadataInitOrder ==
    last.op = "pool_create"
    => /\ Cardinality(CallsOf("thin_restore")) <= 1
       /\ \A i \in CallsOf("thin_restore") :
            /\ \E j \in CallsOf("losetup") :
                 j < i /\ calls[j].res = "ok" /\ calls[j].arg = calls[i].arg.dev
            /\ \A k \in CallsOf("losetup_d") : i < k
       /\ \A c \in CallsOf("dm_create_pool") :
            \E i \in CallsOf("thin_restore") : i < c /\ calls[i].res = "ok"

\* A create whose thin_restore failed: the pool device was not created and
\* the loop devices were detached.
C19_Witness ==
    /\ last.op = "pool_create"
    /\ last.ret = "err"
    /\ \E i \in CallsOf("thin_restore") : calls[i].res = "fail"
    /\ CallsOf("dm_create_pool") = {}
    /\ Cardinality(CallsOf("losetup_d")) = 2

\* C20: when demonstrate_thin_provisioning returns Ok, no dmsetup remove and
\* no losetup -d issued while its locals were dropped has failed: a failure
\* of such a call reaches the caller as an error.
C20_TeardownFailuresReported ==
    (pc = "done" /\ last.ret = "ok")
    => \A i \in DOMAIN Teardown :
           Teardown[i].cmd \in {"dm_remove", "losetup_d"}
           => Teardown[i].res = "ok"

\* C21: when demonstrate_thin_provisioning has ended, a losetup -d has been
\* issued for every loop device the run had bound: where the run ended inside
\* ThinPool::create, after each successful attach of that call; where it
\* ended later, for the two devices of the pool while the locals were dropped.
C21_BoundSlotsUnbound ==
    pc = "done"
    => IF last.op = "create_pool"
       THEN \A i \in CallsOf("losetup") :
                calls[i].res = "ok"
                => \E j \in CallsOf("losetup_d") :
                       j > i /\ calls[j].arg = calls[i].arg
       ELSE Cardinality({i \in DOMAIN Teardown :
                            Teardown[i].cmd = "losetup_d"}) = 2

\* C22: the block size of an active pool is not zero and divides the length
\* in sectors of the pool's data device.
C22_BlockSizeDividesData ==
    dmpool # NoTab
    => (dmpool.block # 0 /\ dmpool.len % dmpool.block = 0)

\* C24: the superblock handed to thin_restore carries the requested block
\* size, and its block count nr is the data size in 512-byte sectors divided
\* by the block size with the remainder dropped: nr * block <= sectors <
\* (nr + 1) * block.  (Data sizes whose byte count fits the u64 the code
\* computes with.)
C24_BlockCountIsFloor ==
    last.op = "pool_create"
    => \A i \in CallsOf("thin_restore") :
         \A sectors \in {(last.h.data_size_mb * 1024 * 1024) \div 512} :
           /\ calls[i].arg.data_block_size = last.h.data_block_size_sectors
           /\ calls[i].arg.nr_data_blocks * calls[i].arg.data_block_size
                <= sectors
           /\ sectors < (calls[i].arg.nr_data_blocks + 1)
                          * calls[i].arg.data_block_size

\* thin_restore was run for a block size that does not divide the sector
\* count: 2048 sectors in blocks of 384 are 5 blocks.
C24_Witness ==
    /\ last.op = "pool_create"
    /\ last.h = [data_size_mb |-> 1, data_block_size_sectors |-> 3 * 128]
    /\ \E i \in CallsOf("thin_restore") :
         calls[i].arg.nr_data_blocks = 5 /\ calls[i].res = "ok"

\* C26: when ThinPool::create returns Ok, the length in the table of the pool
\* device, read from the data device, is the sector count of the requested
\* megabytes, which is the one the block count of the metadata was computed
\* from.
C26_TableLengthMatchesMetadata ==
    (last.op = "pool_create" /\ last.ret = "ok")
    => /\ dmpool.len * 512 = last.h.data_size_mb * 1024 * 1024
       /\ \A i \in CallsOf("thin_restore") :
            /\ calls[i].arg.nr_data_blocks * dmpool.block <= dmpool.len
            /\ dmpool.len < (calls[i].arg.nr_data_blocks + 1) * dmpool.block
       /\ \A c \in CallsOf("dm_create_pool") : calls[c].arg = dmpool

\* A pool was created over a data device of 1024 MB.
C26_Witness ==
    /\ last.op = "pool_create"
    /\ last.ret = "ok"
    /\ last.h.data_size_mb = DemoDataMb
    /\ dmpool.len = 2097152
    /\ pool.should_cleanup

\* C23: whenever demonstrate_thin_provisioning ends (final Ok, error return
\* or panic), a dmsetup remove is issued for every volume and snapshot it
\* still owns and, if it owns the pool, one for the pool and a losetup -d for
\* each of the two loop devices; the removals of volumes come before the
\* removal of the pool, and that comes before both losetup -d.
C23_TeardownInnermostFirst ==
    [][(pc # "done" /\ pc' = "done")
       => /\ \A v \in vols :
               v.should_cleanup
               => \E i \in DOMAIN Teardown' :
                      Teardown'[i].cmd = "dm_remove" /\ Teardown'[i].arg = v.name
          /\ pool # NoPool
             => \E p \in DOMAIN Teardown' :
                  /\ Teardown'[p].cmd = "dm_remove"
                  /\ Teardown'[p].arg = pool.name
                  /\ \A i \in DOMAIN Teardown' :
                       /\ (Teardown'[i].cmd = "dm_remove" /\ i # p) => i < p
                       /\ Teardown'[i].cmd = "delete" => i < p
                       /\ Teardown'[i].cmd = "losetup_d" => p < i
                  /\ \E i, j \in DOMAIN Teardown' :
                       /\ i < j
                       /\ Teardown'[i]
                            = Call("losetup_d", pool.metadata_dev.device_path,
                                   Teardown'[i].res)
                       /\ Teardown'[j]
                            = Call("losetup_d", pool.data_dev.device_path,
                                   Teardown'[j].res)]_vars

\* The function unwound from a failed assertion while the base volume was
\* mounted: the snapshot was removed, the removals of the base volume and of
\* the pool were attempted, then both loop devices were detached.
C23_Witness ==
    /\ pc = "done"
    /\ last.ret = "panic"
    /\ [i \in DOMAIN Teardown |-> Teardown[i].cmd]
         = <<"dm_remove", "delete", "dm_remove", "dm_remove",
             "losetup_d", "losetup_d">>
    /\ Teardown[1].arg = SnapName
    /\ Teardown[3].arg = BaseName
    /\ Teardown[4].arg = PoolName

\* C25: create_thin_volume and create_snapshot send their create message
\* first; when the message does not succeed they issue no dmsetup create,
\* return an error and no handle, and leave the device nodes, the ids of the
\* pool and the caller's handles as they were.
C25_CreateMessageFirst ==
    [][last'.op \in CreateOps
       => /\ calls' # <<>>
          /\ calls'[1].cmd
               = (IF last'.op = "create_thin_volume"
                  THEN "create_thin" ELSE "create_snap")
          /\ \A i \in DOMAIN calls' : calls'[i].cmd = "dm_create" => i > 1
          /\ calls'[1].res # "ok"
             => /\ Len(calls') = 1
                /\ last'.ret = "err"
                /\ last'.h = NoVol
                /\ UNCHANGED <<nodes, ids, vols>>]_vars

\* A create_snapshot whose message the pool refused.
C25_Witness ==
    /\ last.op = "create_snapshot"
    /\ last.ret = "err"
    /\ Len(calls) = 1
    /\ calls[1].cmd = "create_snap"
    /\ calls[1].res = "rejected"
    /\ calls[1].arg.id \in ids

\* C27: a create_snapshot that returns a snapshot was called on a handle that
\* has not been removed: the caller holds a handle other than the snapshot
\* that has the origin id of the message and still has should_cleanup set.
C27_NoSnapshotOfRemovedOrigin ==
    (last.op = "create_snapshot" /\ last.ret = "ok")
    => \E o \in vols :
           /\ o # last.h
           /\ o.should_cleanup
           /\ o.device_id = calls[1].arg.origin

\* C28: a prepare_container that returns an error leaves the snapshot registry
\* as it was before the call, whether an image snapshot id is not registered
\* or the list of image snapshot ids is empty.
C28_FailedPrepareKeepsRegistry ==
    [][(last'.op = "prepare_container" /\ last'.ret = "err")
       => snapshots' = snapshots]_vars

====
